---------------------------- MODULE Spec2Model ----------------------------
(***************************************************************************)
(* A state-machine model of src/streamlit_app.py, the Streamlit dashboard  *)
(* "Retail Sales & Staffing Dashboard".                                    *)
(*                                                                         *)
(* One behaviour is a sequence of script runs.  A run executes the script  *)
(* top to bottom in a fresh namespace: the upload guard, the loader        *)
(* load_and_process_data, the KPI block, the page radio and one page       *)
(* branch.  The "Staffing & Scheduling Model" branch is modelled statement *)
(* by statement: sliders, the Required_Staff heuristic, the groupby mean,  *)
(* the budget slider, the descending sort, the greedy loop and the pivot.  *)
(*                                                                         *)
(* Numbers.  Dates are day numbers of July 2024 (day 1 is a Monday).       *)
(* Money and counts are integers.  A spreadsheet cell is a sequence: <<v>> *)
(* holds the number v and <<>> is a missing cell (pandas NaN).  Quotients  *)
(* and means are exact rationals <<numerator, denominator>>; the floating  *)
(* point rounding of pandas is not modelled.                               *)
(***************************************************************************)
EXTENDS Integers, Sequences, FiniteSets, TLC

VARIABLES
    pc,                          \* position of the running script
    uploaded_files,              \* st.sidebar.file_uploader's value
    warnings,                    \* st.warning messages emitted by the loader
    df,                          \* the table load_and_process_data returned
    page,                        \* the page radio's value
    names,                       \* global names bound so far in this run
    error,                       \* the exception that ended the run, if any
    sales_per_staff,
    txns_per_staff,
    fixed_staff,
    df_staff,                    \* df with its Required_Staff column
    avg_staff_req,               \* the (Day_of_Week, Hour) requirement grid
    total_available_staff_hours,
    schedule_df,                 \* the sorted grid with Assigned_Staff
    hours_to_cover,
    index                        \* label of the row the loop visited last

vars == <<pc, uploaded_files, warnings, df, page, names, error,
          sales_per_staff, txns_per_staff, fixed_staff, df_staff,
          avg_staff_req, total_available_staff_hours, schedule_df,
          hours_to_cover, index>>

---------------------------------------------------------------------------
(* Bounds of the model.                                                    *)

\* Most files in one upload of the whole-script specification.
MaxUploads == 2

\* Most files in one upload of the staffing-page specification.
MaxStaffingFiles == 3

\* The budget slider, scaled down from 100..800 to the size of the grids.
MinBudget == 1

MaxBudget == 6

---------------------------------------------------------------------------
(* Generic helpers.                                                        *)

Abs(n) == IF n < 0 THEN -n ELSE n

Max(a, b) == IF a >= b THEN a ELSE b

RECURSIVE GCD(_, _)
GCD(a, b) == IF b = 0 THEN a ELSE GCD(b, a % b)

Last(s) == s[Len(s)]

Front(s) == SubSeq(s, 1, Len(s) - 1)

SeqsUpTo(S, n) == UNION {[1..k -> S] : k \in 0..n}

Bijections(n) == {p \in [1..n -> 1..n] : \A i, j \in 1..n : p[i] = p[j] => i = j}

\* Exact rationals <<numerator, denominator>>, denominator > 0, in lowest terms.
Rat(n, d) == LET g == GCD(Abs(n), d) IN <<n \div g, d \div g>>

Zero == Rat(0, 1)

RatAdd(a, b) == Rat(a[1] * b[2] + b[1] * a[2], a[2] * b[2])

RatSub(a, b) == Rat(a[1] * b[2] - b[1] * a[2], a[2] * b[2])

RatLeq(a, b) == a[1] * b[2] <= b[1] * a[2]

RatLt(a, b) == a[1] * b[2] < b[1] * a[2]

RECURSIVE RatSum(_)
RatSum(s) == IF s = <<>> THEN Zero ELSE RatAdd(Head(s), RatSum(Tail(s)))

\* A spreadsheet cell: <<v>> is the number v, <<>> is missing (NaN).
IsNaN(c) == c = <<>>

---------------------------------------------------------------------------
(* The calendar: pandas' dt.day_name() of a date.                          *)

days_order == <<"Monday", "Tuesday", "Wednesday", "Thursday", "Friday",
                "Saturday", "Sunday">>

DayName(date) == days_order[((date - 1) % Len(days_order)) + 1]

\* groupby sorts its string keys alphabetically.
DayAlphaRank(day) ==
    CASE day = "Friday" -> 1
      [] day = "Monday" -> 2
      [] day = "Saturday" -> 3
      [] day = "Sunday" -> 4
      [] day = "Thursday" -> 5
      [] day = "Tuesday" -> 6
      [] day = "Wednesday" -> 7

---------------------------------------------------------------------------
(* load_and_process_data.                                                  *)
(* An uploaded file is [name, xlsx, rows]: its file name, whether the zip  *)
(* holds an .xlsx member, and the rows of that sheet, each a record of     *)
(* cells [Hour, TotalSales, Transactions].                                 *)

\* name.split('data-')[1].split('.zip')[0] parsed with '%m-%d-%Y': the date
\* as <<day>>, or <<>> when the split or the parse raises.
ParseFileDate(name) ==
    CASE name = "data-07-01-2024.zip" -> <<1>>
      [] name = "copy-data-07-01-2024.zip" -> <<1>>
      [] name = "data-07-02-2024.zip" -> <<2>>
      [] name = "data-07-08-2024.zip" -> <<8>>
      [] name = "sales.zip" -> <<>>
      [] name = "data-2024-07-01.zip" -> <<>>

\* Data cleaning of one sheet: rows without an Hour are dropped, the Hour
\* becomes an int, and the Date and Day_of_Week columns are added.
CleanSheet(rows, file_date) ==
    LET kept == SelectSeq(rows, LAMBDA r : ~IsNaN(r.Hour))
    IN [i \in 1..Len(kept) |->
          [Date |-> file_date, Hour |-> kept[i].Hour[1],
           TotalSales |-> kept[i].TotalSales,
           Transactions |-> kept[i].Transactions,
           Day_of_Week |-> DayName(file_date)]]

KeyLeq(a, b) == a.Date < b.Date \/ (a.Date = b.Date /\ a.Hour <= b.Hour)

\* sort_values(by=['Date', 'Hour']): a sort on several columns is a stable
\* lexicographic sort, so rows of equal (Date, Hour) keep their order.
RECURSIVE InsertStable(_, _)
InsertStable(sorted, row) ==
    IF sorted = <<>> THEN <<row>>
    ELSE IF KeyLeq(Last(sorted), row) THEN Append(sorted, row)
    ELSE Append(InsertStable(Front(sorted), row), Last(sorted))

RECURSIVE SortByDateHour(_)
SortByDateHour(rows) ==
    IF rows = <<>> THEN <<>>
    ELSE InsertStable(SortByDateHour(Front(rows)), Last(rows))

\* The loop with break in the place of continue.
RECURSIVE LoadLoopBreaks(_, _)
LoadLoopBreaks(files, acc) ==
    IF files = <<>> \/ acc.error # "none" THEN acc
    ELSE LET f == Head(files)
             d == ParseFileDate(f.name)
         IN IF d = <<>>
            THEN [acc EXCEPT !.warnings = Append(@, f.name)]
            ELSE IF ~f.xlsx
            THEN [acc EXCEPT !.error = "IndexError"]
            ELSE LoadLoopBreaks(Tail(files),
                          [acc EXCEPT !.all_data = @ \o CleanSheet(f.rows, d[1])])

\* The for loop over uploaded_files, from the state acc = [all_data, warnings,
\* error] on: an unparseable name warns and continues, a zip without an .xlsx
\* member raises IndexError out of the function.
RECURSIVE LoadLoop(_, _)
LoadLoop(files, acc) ==
    IF files = <<>> \/ acc.error # "none" THEN acc
    ELSE LET f == Head(files)
             d == ParseFileDate(f.name)
         IN IF d = <<>>
            THEN LoadLoop(Tail(files),
                          [acc EXCEPT !.warnings = Append(@, f.name)])
            ELSE IF ~f.xlsx
            THEN [acc EXCEPT !.error = "IndexError"]
            ELSE LoadLoop(Tail(files),
                          [acc EXCEPT !.all_data = @ \o CleanSheet(f.rows, d[1])])

\* The whole function: [df, warnings, error].  all_data is modelled as the
\* concatenation of the frames; an empty all_data returns pd.DataFrame().
load_and_process_data(files) ==
    LET acc == LoadLoop(files, [all_data |-> <<>>, warnings |-> <<>>, error |-> "none"])
    IN [df |-> IF acc.error = "none" THEN SortByDateHour(acc.all_data) ELSE <<>>,
        warnings |-> acc.warnings,
        error |-> acc.error]

---------------------------------------------------------------------------
(* The Required_Staff heuristic of the staffing page.                      *)

\* df['Total Sales'] / sales_per_staff: a rational cell, NaN stays NaN.
StaffBySales(row, sps) ==
    IF IsNaN(row.TotalSales) THEN <<>> ELSE <<Rat(row.TotalSales[1], sps)>>

\* df['# Transactions'] / txns_per_staff.
StaffByTxns(row, tps) ==
    IF IsNaN(row.Transactions) THEN <<>> ELSE <<Rat(row.Transactions[1], tps)>>

\* DataFrame.max(axis=1) of two cells: NaN is skipped, all-NaN gives NaN.
RowMax(a, b) ==
    IF IsNaN(a) THEN b
    ELSE IF IsNaN(b) THEN a
    ELSE IF RatLeq(a[1], b[1]) THEN b ELSE a

\* Round half up: floor(x + 1/2).
RoundHalfUp(x) == (2 * x[1] + x[2]) \div (2 * x[2])

\* Python's round(x, 0) of a number: to the nearest integer, a tie to the
\* even one.
PyRound(x) ==
    LET q == x[1] \div x[2]
        r == x[1] % x[2]
    IN IF 2 * r < x[2] THEN q
       ELSE IF 2 * r > x[2] THEN q + 1
       ELSE IF q % 2 = 0 THEN q ELSE q + 1

\* The Required_Staff cell of one row: max(...) + fixed_staff, then
\* int(round(x, 0)); int(nan) raises ValueError, modelled as the cell <<>>.
RequiredStaff(row, sps, tps, fixed) ==
    LET m == RowMax(StaffBySales(row, sps), StaffByTxns(row, tps))
    IN IF IsNaN(m) THEN <<>>
       ELSE <<PyRound(RatAdd(m[1], Rat(fixed, 1)))>>

---------------------------------------------------------------------------
(* The requirement grid and the greedy scheduling simulation.              *)

GridKeyLess(a, b) ==
    \/ DayAlphaRank(a[1]) < DayAlphaRank(b[1])
    \/ (a[1] = b[1] /\ a[2] < b[2])

RECURSIVE KeysInOrder(_)
KeysInOrder(K) ==
    IF K = {} THEN <<>>
    ELSE LET k == CHOOSE x \in K : \A y \in K \ {x} : GridKeyLess(x, y)
         IN <<k>> \o KeysInOrder(K \ {k})

\* The mean of Required_Staff over the rows of one (Day_of_Week, Hour) group.
GroupMean(rows, key) ==
    LET grp == SelectSeq(rows, LAMBDA r : <<r.Day_of_Week, r.Hour>> = key)
        RECURSIVE Total(_)
        Total(s) == IF s = <<>> THEN 0 ELSE Head(s).Required_Staff + Total(Tail(s))
    IN Rat(Total(grp), Len(grp))

\* df_staff.groupby(['Day_of_Week', 'Hour'])['Required_Staff'].mean()
\* .reset_index(): one row per observed key, in sorted key order.
GroupByMean(rows) ==
    LET keys == KeysInOrder({<<rows[i].Day_of_Week, rows[i].Hour>> : i \in 1..Len(rows)})
    IN [k \in 1..Len(keys) |->
          [Day_of_Week |-> keys[k][1], Hour |-> keys[k][2],
           Required_Staff |-> GroupMean(rows, keys[k])]]

IsDescending(s) ==
    \A i, j \in 1..Len(s) : i < j => RatLeq(s[j].Required_Staff, s[i].Required_Staff)

PermutationsOf(grid) ==
    {[i \in 1..Len(grid) |-> grid[p[i]]] : p \in Bijections(Len(grid))}

\* sort_values(by='Required_Staff', ascending=False).reset_index(drop=True).
\* The default kind is quicksort, which is not stable: every descending
\* arrangement of the rows is an outcome the sort may produce.
SortValues(grid) == {s \in PermutationsOf(grid) : IsDescending(s)}

\* A new column that copies Required_Staff.
AssignedColumnCopied(grid) ==
    [i \in 1..Len(grid) |->
        [Day_of_Week |-> grid[i].Day_of_Week, Hour |-> grid[i].Hour,
         Required_Staff |-> grid[i].Required_Staff,
         Assigned_Staff |-> grid[i].Required_Staff]]

\* schedule_df['Assigned_Staff'] = 0
AssignedColumn(grid) ==
    [i \in 1..Len(grid) |->
        [Day_of_Week |-> grid[i].Day_of_Week, Hour |-> grid[i].Hour,
         Required_Staff |-> grid[i].Required_Staff,
         Assigned_Staff |-> Zero]]

\* The loop body without the decrement of hours_to_cover.
GreedyAssignNoDecrement(staff_needed, hours, current) ==
    IF RatLeq(staff_needed, hours) THEN <<staff_needed, hours>>
    ELSE IF RatLt(Zero, hours) THEN <<hours, Zero>>
    ELSE <<current, hours>>

\* The body of the greedy loop for one row: <<Assigned_Staff of the row,
\* hours_to_cover>> after the if / elif.
GreedyAssign(staff_needed, hours, current) ==
    IF RatLeq(staff_needed, hours) THEN <<staff_needed, RatSub(hours, staff_needed)>>
    ELSE IF RatLt(Zero, hours) THEN <<hours, Zero>>
    ELSE <<current, hours>>

---------------------------------------------------------------------------
(* Inputs.                                                                 *)

Pages == {"Dashboard Overview", "Exploratory Data Analysis (EDA)",
          "Monthly Comparison", "Staffing & Scheduling Model"}

\* Slider positions tried; the sliders range over 50..200, 5..20 and 0..5.
SalesPerStaffChoices == {50, 75, 200}

TxnsPerStaffChoices == {5, 10, 20}

FixedStaffChoices == {0, 1, 2, 5}

\* The sliders' default positions.
DefaultSalesPerStaff == 75

DefaultTxnsPerStaff == 10

DefaultFixedStaff == 1

SheetRow(hour, sales, txns) ==
    [Hour |-> hour, TotalSales |-> sales, Transactions |-> txns]

\* Uploads of the whole-script specification: a sheet with two rows for the
\* same hour, a second file for the same date, a sheet with a row without an
\* Hour and a row of negative amounts, a file whose name holds no date, and a
\* zip without a spreadsheet.
UploadCatalogue ==
    {[name |-> "data-07-01-2024.zip", xlsx |-> TRUE,
      rows |-> <<SheetRow(<<9>>, <<100>>, <<10>>), SheetRow(<<9>>, <<50>>, <<5>>)>>],
     [name |-> "copy-data-07-01-2024.zip", xlsx |-> TRUE,
      rows |-> <<SheetRow(<<10>>, <<150>>, <<12>>)>>],
     [name |-> "data-07-02-2024.zip", xlsx |-> TRUE,
      rows |-> <<SheetRow(<<>>, <<30>>, <<3>>), SheetRow(<<9>>, <<-150>>, <<-20>>)>>],
     [name |-> "sales.zip", xlsx |-> TRUE,
      rows |-> <<SheetRow(<<9>>, <<80>>, <<5>>), SheetRow(<<10>>, <<0>>, <<0>>)>>],
     [name |-> "data-07-08-2024.zip", xlsx |-> FALSE, rows |-> <<>>]}

\* Uploads of the staffing-page specification: one-row sheets for three
\* (Day_of_Week, Hour) cells; several files may hold the same date and hour.
StaffingObservations == {<<-150, -20>>, <<80, 5>>, <<150, 12>>, <<300, 10>>}

StaffingFiles ==
    {[name |-> t[1], xlsx |-> TRUE,
      rows |-> <<SheetRow(<<t[2]>>, <<o[1]>>, <<o[2]>>)>>] :
        t \in {<<"data-07-01-2024.zip", 9>>, <<"data-07-01-2024.zip", 10>>,
               <<"data-07-02-2024.zip", 9>>},
        o \in StaffingObservations}

\* Uploads of the estimator specification: one sheet of one row.
EstimateSales == {<<>>, <<-150>>, <<0>>, <<80>>, <<100>>, <<150>>, <<1000>>}

EstimateTxns == {<<>>, <<-20>>, <<0>>, <<5>>, <<12>>, <<25>>}

EstimateFiles ==
    {[name |-> "data-07-01-2024.zip", xlsx |-> TRUE,
      rows |-> <<SheetRow(<<9>>, s, t)>>] : s \in EstimateSales, t \in EstimateTxns}

---------------------------------------------------------------------------
(* The names each part of the script binds in the run's namespace.         *)

NamesImported == {"st", "pd", "px", "go", "zipfile", "io", "time",
                  "load_and_process_data"}

NamesKPIs == {"total_sales", "total_txns", "avg_txn_value", "col1", "col2", "col3"}

NamesOverview == {"daily_summary", "fig_daily"}

NamesEDA == {"eda_tabs", "agg_type_hourly", "hourly_summary", "col1", "col2",
             "fig_h_sales", "fig_h_txns", "agg_type_dow", "days_order",
             "dow_summary", "fig_d_sales", "fig_d_txns", "fig_box_sales",
             "fig_box_txns"}

NamesMonthly == {"business_hours_df", "comparison_summary", "col1", "col2",
                 "fig_comp_sales", "fig_comp_txns"}

NamesSliders == {"sales_per_staff", "txns_per_staff", "fixed_staff"}

\* The namespace when the staffing page reaches its sliders.
NamesAtStaffingPage ==
    NamesImported \cup {"uploaded_files", "df"} \cup NamesKPIs \cup {"page"}

---------------------------------------------------------------------------
(* The script.                                                             *)

\* The state a run starts in, for the upload `files`.
RunStart(files) ==
    /\ pc = "start"
    /\ uploaded_files = files
    /\ warnings = <<>>
    /\ df = <<>>
    /\ page = ""
    /\ names = NamesImported
    /\ error = "none"
    /\ sales_per_staff = 0
    /\ txns_per_staff = 0
    /\ fixed_staff = 0
    /\ df_staff = <<>>
    /\ avg_staff_req = <<>>
    /\ total_available_staff_hours = 0
    /\ schedule_df = <<>>
    /\ hours_to_cover = Zero
    /\ index = 0

Init == \E files \in SeqsUpTo(UploadCatalogue, MaxUploads) : RunStart(files)

\* if not uploaded_files: st.info(...); st.stop()
CheckUpload ==
    /\ pc = "start"
    /\ names' = names \cup {"uploaded_files"}
    /\ pc' = IF uploaded_files = <<>> THEN "stopped" ELSE "load"
    /\ UNCHANGED <<uploaded_files, warnings, df, page, error, sales_per_staff,
                   txns_per_staff, fixed_staff, df_staff, avg_staff_req,
                   total_available_staff_hours, schedule_df, hours_to_cover, index>>

\* df = load_and_process_data(uploaded_files), then the empty-result guard.
CallLoad ==
    /\ pc = "load"
    /\ LET r == load_and_process_data(uploaded_files)
       IN /\ warnings' = r.warnings
          /\ error' = r.error
          /\ df' = r.df
          /\ names' = IF r.error = "none" THEN names \cup {"df"} ELSE names
          /\ pc' = IF r.error # "none" THEN "crashed"
                   ELSE IF r.df = <<>> THEN "stopped" ELSE "kpis"
    /\ UNCHANGED <<uploaded_files, page, sales_per_staff, txns_per_staff,
                   fixed_staff, df_staff, avg_staff_req,
                   total_available_staff_hours, schedule_df, hours_to_cover, index>>

\* The title and the global KPI block.
ShowKPIs ==
    /\ pc = "kpis"
    /\ names' = names \cup NamesKPIs
    /\ pc' = "page"
    /\ UNCHANGED <<uploaded_files, warnings, df, page, error, sales_per_staff,
                   txns_per_staff, fixed_staff, df_staff, avg_staff_req,
                   total_available_staff_hours, schedule_df, hours_to_cover, index>>

BranchOf(p) ==
    CASE p = "Dashboard Overview" -> "overview"
      [] p = "Exploratory Data Analysis (EDA)" -> "eda"
      [] p = "Monthly Comparison" -> "monthly"
      [] p = "Staffing & Scheduling Model" -> "sliders"

\* page = st.sidebar.radio(...) and the if / elif chain on it.
SelectPage ==
    /\ pc = "page"
    /\ \E p \in Pages :
          /\ page' = p
          /\ pc' = BranchOf(p)
    /\ names' = names \cup {"page"}
    /\ UNCHANGED <<uploaded_files, warnings, df, error, sales_per_staff,
                   txns_per_staff, fixed_staff, df_staff, avg_staff_req,
                   total_available_staff_hours, schedule_df, hours_to_cover, index>>

PageOverview ==
    /\ pc = "overview"
    /\ names' = names \cup NamesOverview
    /\ pc' = "done"
    /\ UNCHANGED <<uploaded_files, warnings, df, page, error, sales_per_staff,
                   txns_per_staff, fixed_staff, df_staff, avg_staff_req,
                   total_available_staff_hours, schedule_df, hours_to_cover, index>>

\* The EDA page: the only place that assigns days_order.
PageEDA ==
    /\ pc = "eda"
    /\ names' = names \cup NamesEDA
    /\ pc' = "done"
    /\ UNCHANGED <<uploaded_files, warnings, df, page, error, sales_per_staff,
                   txns_per_staff, fixed_staff, df_staff, avg_staff_req,
                   total_available_staff_hours, schedule_df, hours_to_cover, index>>

PageMonthly ==
    /\ pc = "monthly"
    /\ names' = names \cup NamesMonthly
    /\ pc' = "done"
    /\ UNCHANGED <<uploaded_files, warnings, df, page, error, sales_per_staff,
                   txns_per_staff, fixed_staff, df_staff, avg_staff_req,
                   total_available_staff_hours, schedule_df, hours_to_cover, index>>

\* The three sliders of the staffing page.
ReadSliders ==
    /\ pc = "sliders"
    /\ sales_per_staff' \in SalesPerStaffChoices
    /\ txns_per_staff' \in TxnsPerStaffChoices
    /\ fixed_staff' \in FixedStaffChoices
    /\ names' = names \cup NamesSliders
    /\ pc' = "estimate"
    /\ UNCHANGED <<uploaded_files, warnings, df, page, error, df_staff,
                   avg_staff_req, total_available_staff_hours, schedule_df,
                   hours_to_cover, index>>

\* df_staff and its Required_Staff column; int(nan) ends the run.
EstimateRequired ==
    /\ pc = "estimate"
    /\ LET req == [i \in 1..Len(df) |->
                     RequiredStaff(df[i], sales_per_staff, txns_per_staff, fixed_staff)]
       IN IF \E i \in 1..Len(df) : IsNaN(req[i])
          THEN /\ error' = "ValueError"
               /\ pc' = "crashed"
               /\ df_staff' = df_staff
          ELSE /\ error' = error
               /\ pc' = "groupby"
               /\ df_staff' = [i \in 1..Len(df) |->
                     [Date |-> df[i].Date, Hour |-> df[i].Hour,
                      TotalSales |-> df[i].TotalSales,
                      Transactions |-> df[i].Transactions,
                      Day_of_Week |-> df[i].Day_of_Week,
                      Required_Staff |-> req[i][1]]]
    /\ names' = names \cup {"df_staff"}
    /\ UNCHANGED <<uploaded_files, warnings, df, page, sales_per_staff,
                   txns_per_staff, fixed_staff, avg_staff_req,
                   total_available_staff_hours, schedule_df, hours_to_cover, index>>

\* avg_staff_req and its heatmap.
GroupRequirements ==
    /\ pc = "groupby"
    /\ avg_staff_req' = GroupByMean(df_staff)
    /\ names' = names \cup {"avg_staff_req", "fig_staff_heatmap"}
    /\ pc' = "budget"
    /\ UNCHANGED <<uploaded_files, warnings, df, page, error, sales_per_staff,
                   txns_per_staff, fixed_staff, df_staff,
                   total_available_staff_hours, schedule_df, hours_to_cover, index>>

\* total_available_staff_hours = st.slider(...)
ReadBudget ==
    /\ pc = "budget"
    /\ total_available_staff_hours' \in MinBudget..MaxBudget
    /\ names' = names \cup {"total_available_staff_hours"}
    /\ pc' = "sort"
    /\ UNCHANGED <<uploaded_files, warnings, df, page, error, sales_per_staff,
                   txns_per_staff, fixed_staff, df_staff, avg_staff_req,
                   schedule_df, hours_to_cover, index>>

\* The sort, hours_to_cover = total_available_staff_hours and the new column.
SortSchedule ==
    /\ pc = "sort"
    /\ \E s \in SortValues(avg_staff_req) : schedule_df' = AssignedColumn(s)
    /\ hours_to_cover' = Rat(total_available_staff_hours, 1)
    /\ names' = names \cup {"schedule_df", "hours_to_cover"}
    /\ pc' = "loop"
    /\ UNCHANGED <<uploaded_files, warnings, df, page, error, sales_per_staff,
                   txns_per_staff, fixed_staff, df_staff, avg_staff_req,
                   total_available_staff_hours, index>>

\* One iteration of for index, row in schedule_df.iterrows(), with its break.
\* A fractional mean written into the integer column Assigned_Staff turns the
\* column into floats (pandas 2), so the value is stored as it is.
GreedyStep ==
    /\ pc = "loop"
    /\ LET i == index + 1
           row == schedule_df[i]
           got == GreedyAssign(row.Required_Staff, hours_to_cover, row.Assigned_Staff)
       IN /\ index' = i
          /\ schedule_df' = [schedule_df EXCEPT ![i].Assigned_Staff = got[1]]
          /\ hours_to_cover' = got[2]
          /\ pc' = IF RatLeq(got[2], Zero) \/ i = Len(schedule_df)
                   THEN "pivot" ELSE "loop"
    /\ names' = names \cup {"index", "row", "staff_needed"}
    /\ UNCHANGED <<uploaded_files, warnings, df, page, error, sales_per_staff,
                   txns_per_staff, fixed_staff, df_staff, avg_staff_req,
                   total_available_staff_hours>>

\* schedule_pivot = ....reindex(columns=days_order): a name that is not bound
\* raises NameError.
PivotSchedule ==
    /\ pc = "pivot"
    /\ IF "days_order" \in names
       THEN /\ names' = names \cup {"schedule_pivot", "fig_schedule"}
            /\ error' = error
            /\ pc' = "done"
       ELSE /\ names' = names
            /\ error' = "NameError"
            /\ pc' = "crashed"
    /\ UNCHANGED <<uploaded_files, warnings, df, page, sales_per_staff,
                   txns_per_staff, fixed_staff, df_staff, avg_staff_req,
                   total_available_staff_hours, schedule_df, hours_to_cover, index>>

\* Any interaction reruns the script from the top in a fresh namespace, with
\* the uploader keeping its files.
Rerun ==
    /\ pc \in {"done", "stopped", "crashed"}
    /\ pc' = "start"
    /\ warnings' = <<>>
    /\ df' = <<>>
    /\ page' = ""
    /\ names' = NamesImported
    /\ error' = "none"
    /\ sales_per_staff' = 0
    /\ txns_per_staff' = 0
    /\ fixed_staff' = 0
    /\ df_staff' = <<>>
    /\ avg_staff_req' = <<>>
    /\ total_available_staff_hours' = 0
    /\ schedule_df' = <<>>
    /\ hours_to_cover' = Zero
    /\ index' = 0
    /\ UNCHANGED uploaded_files

Next ==
    \/ CheckUpload
    \/ CallLoad
    \/ ShowKPIs
    \/ SelectPage
    \/ PageOverview
    \/ PageEDA
    \/ PageMonthly
    \/ ReadSliders
    \/ EstimateRequired
    \/ GroupRequirements
    \/ ReadBudget
    \/ SortSchedule
    \/ GreedyStep
    \/ PivotSchedule
    \/ Rerun

Spec == Init /\ [][Next]_vars

---------------------------------------------------------------------------
(* The staffing page alone, from its Required_Staff computation on, for a  *)
(* wider set of uploads and the sliders at their default positions.        *)

\* The state in which a run of the script reaches `at` on the staffing page.
AtStaffingPage(files, at) ==
    LET r == load_and_process_data(files)
    IN /\ pc = at
       /\ uploaded_files = files
       /\ warnings = r.warnings
       /\ df = r.df
       /\ page = "Staffing & Scheduling Model"
       /\ error = "none"
       /\ df_staff = <<>>
       /\ avg_staff_req = <<>>
       /\ total_available_staff_hours = 0
       /\ schedule_df = <<>>
       /\ hours_to_cover = Zero
       /\ index = 0

InitStaffing ==
    \E files \in SeqsUpTo(StaffingFiles, MaxStaffingFiles) \ {<<>>} :
        /\ AtStaffingPage(files, "estimate")
        /\ names = NamesAtStaffingPage \cup NamesSliders
        /\ sales_per_staff = DefaultSalesPerStaff
        /\ txns_per_staff = DefaultTxnsPerStaff
        /\ fixed_staff = DefaultFixedStaff

NextStaffing ==
    \/ EstimateRequired
    \/ GroupRequirements
    \/ ReadBudget
    \/ SortSchedule
    \/ GreedyStep
    \/ PivotSchedule

SpecStaffing == InitStaffing /\ [][NextStaffing]_vars

---------------------------------------------------------------------------
(* The Required_Staff heuristic alone, for one observation and every       *)
(* slider position tried.                                                  *)

InitEstimate ==
    \E f \in EstimateFiles :
        /\ AtStaffingPage(<<f>>, "sliders")
        /\ names = NamesAtStaffingPage
        /\ sales_per_staff = 0
        /\ txns_per_staff = 0
        /\ fixed_staff = 0

NextEstimate ==
    \/ ReadSliders
    \/ EstimateRequired

SpecEstimate == InitEstimate /\ [][NextEstimate]_vars

---------------------------------------------------------------------------
(* Properties of the greedy scheduling simulation (SpecStaffing).          *)

\* The greedy loop has ended, by its break or by running out of rows.
LoopFinished == pc = "pivot"

Required(i) == schedule_df[i].Required_Staff

Assigned(i) == schedule_df[i].Assigned_Staff

Cells == 1..Len(schedule_df)

Budget == Rat(total_available_staff_hours, 1)

TotalAssigned == RatSum([i \in Cells |-> Assigned(i)])

TotalRequired == RatSum([i \in Cells |-> Required(i)])

\* The budget left when the loop reaches row i.
Remaining(i) == RatSub(Budget, RatSum([j \in 1..(i - 1) |-> Assigned(j)]))

RatMin(a, b) == IF RatLeq(a, b) THEN a ELSE b

\* Where a row of schedule_df stood in avg_staff_req.
GridPosition(i) ==
    CHOOSE k \in 1..Len(avg_staff_req) :
        /\ avg_staff_req[k].Day_of_Week = schedule_df[i].Day_of_Week
        /\ avg_staff_req[k].Hour = schedule_df[i].Hour

\* C1, the allocator budget law: when the greedy loop has finished, the sum
\* of Assigned_Staff over all cells is at most the budget and every cell has
\* 0 <= Assigned_Staff <= Required_Staff.
AllocatorBudgetLaw ==
    LoopFinished =>
        /\ RatLeq(TotalAssigned, Budget)
        /\ \A i \in Cells : RatLeq(Zero, Assigned(i)) /\ RatLeq(Assigned(i), Required(i))

\* The budget law on the grids without a negative requirement.
BudgetLawOnNonNegativeGrids ==
    (LoopFinished /\ \A i \in Cells : RatLeq(Zero, Required(i))) =>
        /\ RatLeq(TotalAssigned, Budget)
        /\ \A i \in Cells : RatLeq(Zero, Assigned(i)) /\ RatLeq(Assigned(i), Required(i))

\* C2, the allocator exhaustion law: when the requirements sum to at most
\* the budget, the loop ends with Assigned_Staff = Required_Staff in every
\* cell.
AllocatorExhaustionLaw ==
    (LoopFinished /\ RatLeq(TotalRequired, Budget)) =>
        \A i \in Cells : Assigned(i) = Required(i)

\* The exhaustion law on the grids without a negative requirement.
ExhaustionLawOnNonNegativeGrids ==
    (/\ LoopFinished
     /\ RatLeq(TotalRequired, Budget)
     /\ \A i \in Cells : RatLeq(Zero, Required(i))) =>
        \A i \in Cells : Assigned(i) = Required(i)

IsPartial(i) == Assigned(i) # Required(i) /\ Assigned(i) # Zero

\* C3, greedy fill: the rows are visited in descending order of
\* Required_Staff, every visited row gets min(Required_Staff, budget left)
\* and the budget goes down by what was given, every row after the break
\* keeps 0; so a partially filled row has only fully filled rows before it
\* and only rows with 0 after it, and there is at most one such row.
GreedyFill ==
    LoopFinished =>
        /\ IsDescending(schedule_df)
        /\ \A i \in Cells :
              Assigned(i) = IF i <= index THEN RatMin(Required(i), Remaining(i))
                            ELSE Zero
        /\ hours_to_cover = Remaining(Len(schedule_df) + 1)
        /\ \A p \in Cells : IsPartial(p) =>
              /\ \A j \in Cells : j < p => Assigned(j) = Required(j)
              /\ \A j \in Cells : j > p => Assigned(j) = Zero
        /\ Cardinality({p \in Cells : IsPartial(p)}) <= 1

\* The scenario of the specification: requirements 5, 3, 2 and a budget of 6
\* end as 5, 1, 0.
GreedyFillScenario ==
    /\ LoopFinished
    /\ total_available_staff_hours = 6
    /\ [i \in Cells |-> Required(i)] = <<Rat(5, 1), Rat(3, 1), Rat(2, 1)>>
    /\ [i \in Cells |-> Assigned(i)] = <<Rat(5, 1), Rat(1, 1), Zero>>

\* C4, the full grid is emitted: when the loop has finished schedule_df has
\* exactly one row for every cell of avg_staff_req, with that cell's
\* requirement, and every row the loop never visited holds Assigned_Staff 0.
FullGridEmitted ==
    LoopFinished =>
        /\ Len(schedule_df) = Len(avg_staff_req)
        /\ \A k \in 1..Len(avg_staff_req) :
              Cardinality({i \in Cells :
                  /\ schedule_df[i].Day_of_Week = avg_staff_req[k].Day_of_Week
                  /\ schedule_df[i].Hour = avg_staff_req[k].Hour
                  /\ Required(i) = avg_staff_req[k].Required_Staff}) = 1
        /\ \A i \in Cells : i > index => Assigned(i) = Zero

\* The loop broke early and left two rows with a positive requirement
\* unvisited.
EarlyBreakLeavesCells ==
    /\ LoopFinished
    /\ Len(schedule_df) = 3
    /\ index = 1
    /\ RatLt(Zero, Required(3))

\* C9, deterministic tie-breaking: rows of equal Required_Staff stand in
\* schedule_df in the order they had in the requirement grid.
TiesKeepGridOrder ==
    pc \in {"loop", "pivot"} =>
        \A i, j \in Cells :
            (i < j /\ Required(i) = Required(j)) => GridPosition(i) < GridPosition(j)

---------------------------------------------------------------------------
(* Properties of the Required_Staff heuristic (SpecEstimate).              *)

\* The heuristic has run without raising.
Estimated == pc = "groupby"

IsNumeric(row) == ~IsNaN(row.TotalSales) /\ ~IsNaN(row.Transactions)

\* max(sales / sales_per_staff, txns / txns_per_staff) + fixed_staff as the
\* fraction DemandNum(row) / DemandDen.
DemandDen == sales_per_staff * txns_per_staff

DemandNum(row) ==
    Max(row.TotalSales[1] * txns_per_staff, row.Transactions[1] * sales_per_staff)
        + fixed_staff * DemandDen

\* The least integer not below num / den.
Ceiling(num, den) == -((-num) \div den)

\* C5 as amended: for every observation of two numbers Required_Staff is
\* max(sales / sales_capacity, txns / txn_capacity) + fixed_staff rounded to
\* the nearest integer, a tie going to the even integer.
RequiredStaffIsRounded ==
    Estimated =>
        \A i \in 1..Len(df_staff) : IsNumeric(df_staff[i]) =>
            LET n == df_staff[i].Required_Staff
                off == 2 * Abs(DemandNum(df_staff[i]) - n * DemandDen)
            IN /\ off <= DemandDen
               /\ off = DemandDen => n % 2 = 0

\* A tie: the demand lies halfway between two integers.
RoundedTie ==
    /\ Estimated
    /\ \E i \in 1..Len(df_staff) :
          /\ IsNumeric(df_staff[i])
          /\ 2 * Abs(DemandNum(df_staff[i]) - df_staff[i].Required_Staff * DemandDen)
                = DemandDen

IsNonNegative(row) ==
    IsNumeric(row) /\ row.TotalSales[1] >= 0 /\ row.Transactions[1] >= 0

\* C5 as stated: Required_Staff is
\* ceil(max(sales / sales_capacity, txns / txn_capacity)) + fixed_staff,
\* here for the observations without a negative amount.
RequiredStaffIsCeiling ==
    Estimated =>
        \A i \in 1..Len(df_staff) : IsNonNegative(df_staff[i]) =>
            df_staff[i].Required_Staff =
                Ceiling(DemandNum(df_staff[i]) - fixed_staff * DemandDen, DemandDen)
                    + fixed_staff

\* C6, minimum coverage: for every row the loader yields the heuristic gives
\* a Required_Staff of at least fixed_staff, negative and missing amounts
\* counting as zero.
MinimumCoverage ==
    pc \in {"groupby", "crashed"} =>
        /\ error = "none"
        /\ \A i \in 1..Len(df_staff) : df_staff[i].Required_Staff >= fixed_staff

---------------------------------------------------------------------------
(* Properties of the loader and of a whole run (Spec).                     *)

\* load_and_process_data has returned (the run is past line 80).
LoadReturned == pc \notin {"start", "load"} /\ "df" \in names

\* The call of load_and_process_data is over, by a return or an exception.
LoadOver == pc \notin {"start", "load"} /\ uploaded_files # <<>>

Uploads == 1..Len(uploaded_files)

Unparseable == {k \in Uploads : ParseFileDate(uploaded_files[k].name) = <<>>}

RowsWithHour(f) == SelectSeq(f.rows, LAMBDA r : ~IsNaN(r.Hour))

RECURSIVE SumSeq(_)
SumSeq(s) == IF s = <<>> THEN 0 ELSE Head(s) + SumSeq(Tail(s))

\* The number of rows the files not skipped for their name contribute.
RowsOfParseable ==
    SumSeq([k \in Uploads |->
              IF k \in Unparseable THEN 0 ELSE Len(RowsWithHour(uploaded_files[k]))])

IsAt(k, n, date, hour) ==
    /\ ParseFileDate(uploaded_files[k].name) = <<date>>
    /\ uploaded_files[k].rows[n].Hour = <<hour>>

\* The sums of Total Sales and of # Transactions over the sheet rows of the
\* upload that carry a given date and hour.
SalesAt(date, hour) ==
    SumSeq([k \in Uploads |->
        SumSeq([n \in 1..Len(uploaded_files[k].rows) |->
            IF IsAt(k, n, date, hour)
            THEN uploaded_files[k].rows[n].TotalSales[1] ELSE 0])])

TxnsAt(date, hour) ==
    SumSeq([k \in Uploads |->
        SumSeq([n \in 1..Len(uploaded_files[k].rows) |->
            IF IsAt(k, n, date, hour)
            THEN uploaded_files[k].rows[n].Transactions[1] ELSE 0])])

\* C7, duplicate timestamps are summed: the returned table has at most one
\* row per (Date, Hour), whose Total Sales and # Transactions are the sums
\* over the input rows of that date and hour.
DuplicateTimestampsSummed ==
    LoadReturned =>
        /\ \A i, j \in 1..Len(df) :
              (df[i].Date = df[j].Date /\ df[i].Hour = df[j].Hour) => i = j
        /\ \A i \in 1..Len(df) :
              /\ df[i].TotalSales = <<SalesAt(df[i].Date, df[i].Hour)>>
              /\ df[i].Transactions = <<TxnsAt(df[i].Date, df[i].Hour)>>

SkippedRowCount(k) == Len(uploaded_files[k].rows)

\* C8 as stated: the files whose date cannot be parsed are dropped, the rows
\* of the other files are returned, and the caller is told the number of
\* rows skipped.  The loader reports nothing but its warnings.
MalformedSkippedWithRowCount ==
    LoadReturned =>
        /\ Len(df) = RowsOfParseable
        /\ Len(warnings) = SumSeq([k \in Uploads |->
                               IF k \in Unparseable THEN SkippedRowCount(k) ELSE 0])

\* C8 as amended: a file whose name holds no parseable date is skipped with
\* one warning that names it and is never what makes the loader raise; the
\* files after it are still processed, and when the loader returns the table
\* holds the rows of all the files that were not skipped; no count of skipped
\* rows is reported; when every file is skipped the table is empty and the
\* run stops.
MalformedSkippedWithWarning ==
    LoadOver =>
        /\ "df" \notin names =>
              /\ error = "IndexError"
              /\ \E k \in Uploads \ Unparseable : ~uploaded_files[k].xlsx
        /\ "df" \in names =>
              /\ Len(df) = RowsOfParseable
              /\ \A k \in Uploads \ Unparseable :
                    \A n \in 1..Len(uploaded_files[k].rows) :
                        LET r == uploaded_files[k].rows[n]
                        IN ~IsNaN(r.Hour) =>
                              \E i \in 1..Len(df) :
                                  /\ <<df[i].Date>> = ParseFileDate(uploaded_files[k].name)
                                  /\ df[i].Hour = r.Hour[1]
                                  /\ df[i].TotalSales = r.TotalSales
                                  /\ df[i].Transactions = r.Transactions
              /\ Len(warnings) = Cardinality(Unparseable)
              /\ \A k \in Unparseable :
                    \E w \in 1..Len(warnings) : warnings[w] = uploaded_files[k].name
              /\ Unparseable = Uploads => (df = <<>> /\ pc = "stopped")

\* A skipped file stands before a good one, whose rows are returned.
SkippedThenLoaded ==
    /\ LoadReturned
    /\ Len(uploaded_files) = 2
    /\ Unparseable = {1}
    /\ Len(warnings) = 1
    /\ Len(df) > 0

\* C10, the staffing page completes: when the run reaches the pivot of the
\* schedule every name that line reads, days_order among them, is bound in
\* the run's namespace.
StaffingPageNamesBound ==
    pc = "pivot" => "days_order" \in names

\* C10 seen at the end of the run: a run of the staffing page does not end
\* in a NameError.
StaffingPageCompletes ==
    page = "Staffing & Scheduling Model" => error # "NameError"

===========================================================================
